---- MODULE Spec2Model ----
(***************************************************************************)
(* Model of streamlit_app.py (SeatLive frontend): the weekday-profile       *)
(* pipeline get_weekday_aggregated_occupancy -> display_live_statistics     *)
(* and the live seat summary get_seat_status -> display_live_seat_status,   *)
(* and the weekday selector script that display_live_statistics emits.     *)
(*                                                                         *)
(* Numbers.  occupancy_count of a raw record is an integer.  An aggregated *)
(* occupancy_count is a float rounded to one decimal; it is held in TENTHS *)
(* (5.0 is 50).  A bucket height and the occupancy rate are exact          *)
(* rationals [n, d]; NaN is 0/0.  pandas' NaN for a missing field is NA    *)
(* (-1 for a number, "NA" for a string).                                   *)
(***************************************************************************)
EXTENDS Integers, Sequences, FiniteSets

VARIABLES
    current_week,          \* datetime.now().isocalendar()[1]
    occupancy_statistics,  \* Firebase /occupancy_statistics/week_<N>
    weeks_to_fetch,        \* local of get_weekday_aggregated_occupancy
    weekday_data_by_week,  \* local of get_weekday_aggregated_occupancy
    all_latest_data,       \* local of get_weekday_aggregated_occupancy
    weekday_data,          \* what get_weekday_aggregated_occupancy returned
    stats_error,           \* st.error shown by get_weekday_aggregated_occupancy
    all_max_occupancy,     \* local of display_live_statistics (tenths)
    stats_view,            \* what display_live_statistics drew
    seat_status,           \* Firebase /seat_status
    seat_error,            \* st.error shown by get_seat_status
    seat_view,             \* what display_live_seat_status drew
    current_weekday,       \* datetime.now().weekday()
    selector               \* the weekday selector in the browser: its DOM and
                           \* the variables of the script of components.html

vars == <<current_week, occupancy_statistics, weeks_to_fetch, weekday_data_by_week,
          all_latest_data, weekday_data, stats_error, all_max_occupancy, stats_view,
          seat_status, seat_error, seat_view, current_weekday, selector>>

stats_vars == <<weeks_to_fetch, weekday_data_by_week, all_latest_data, weekday_data,
                stats_error, all_max_occupancy, stats_view>>

seat_vars == <<seat_status, seat_error, seat_view>>

selector_vars == <<current_weekday, selector>>

(***************************************************************************)
(* Program constants                                                       *)
(***************************************************************************)
LookbackWeeks == 12

PrevYearWeeks == 53

Weekdays == 0..4

weekday_names == <<"Mon", "Tue", "Wed", "Thu", "Fri">>

FirstHour == 9

LastHour == 21

NA == -1

NAStr == "NA"

(***************************************************************************)
(* Bounds of the model                                                     *)
(***************************************************************************)
MaxRecords == 3

MaxSeats == 3

\* week nodes the external writer touches.  In week 2 they are W-1 and W-3
\* (52 is reached through the year wraparound); in week 12 week 1 is the
\* oldest week of the window and week 52 lies outside it
WeekKeys == {1, 52}

ClockWeeks == {2, 12}

\* the time_interval labels the writer uses; the last lies outside 9..21 h
Intervals == <<"09:00-09:15", "12:30-12:45", "21:00-21:15">>

Counts == {0, 1, 4}

Statuses == {"occupied", "available", "NA"}

(***************************************************************************)
(* Week Window Resolver                                                    *)
(***************************************************************************)
\* mutant: the previous year is taken to have 52 weeks
WeekStep_Wrap52(acc, week, i) ==
    LET week_num == week - i
    IN  IF week_num > 0 THEN Append(acc, week_num)
        ELSE IF 52 + week_num > 0 THEN Append(acc, 52 + week_num)
        ELSE acc

WeekStep(acc, week, i) ==
    LET week_num == week - i
        previous_year_week == PrevYearWeeks + week_num
    IN  IF week_num > 0 THEN Append(acc, week_num)
        ELSE IF previous_year_week > 0 THEN Append(acc, previous_year_week)
        ELSE acc

RECURSIVE WeekLoop(_, _, _)
WeekLoop(acc, week, i) ==
    IF i >= LookbackWeeks THEN acc
    ELSE WeekLoop(WeekStep(acc, week, i), week, i + 1)

WeekWindow(week) == WeekLoop(<<>>, week, 0)

(***************************************************************************)
(* The external store and the Weekly Record Fetcher                        *)
(***************************************************************************)
\* an OccupancyRecord as the store holds it (a dict of detail_data)
Rec(wd, zh, ti, oc) ==
    [weekday |-> wd, weekday_zh |-> zh, time_interval |-> ti, occupancy_count |-> oc]

\* the label the writer stores beside weekday index wd
ZhOf(wd) == IF wd \in Weekdays THEN weekday_names[wd + 1] ELSE NAStr

IntervalSet == {Intervals[i] : i \in 1..Len(Intervals)}

\* the complete records the writer stores: Monday with every count in the
\* first interval, and one record for each other (weekday, interval) used
WellFormedRecs ==
    {Rec(0, ZhOf(0), Intervals[1], oc) : oc \in Counts}
    \cup {Rec(0, ZhOf(0), Intervals[2], 1), Rec(0, ZhOf(0), Intervals[3], 4),
          Rec(1, ZhOf(1), Intervals[1], 4), Rec(1, ZhOf(1), Intervals[2], 0)}

\* records that miss one expected field (the key is absent in the store)
MalformedRecs ==
    { Rec(NA, NAStr, Intervals[1], 4),
      Rec(0, ZhOf(0), NAStr, 4),
      Rec(0, ZhOf(0), Intervals[1], NA),
      Rec(0, NAStr, Intervals[1], 4) }

IsWellFormed(r) ==
    /\ r.weekday # NA
    /\ r.weekday_zh # NAStr
    /\ r.time_interval # NAStr
    /\ r.occupancy_count # NA

\* ref.get() of a path with nothing stored returns None
NoNode == [node |-> FALSE, has_detail |-> FALSE, detail_data |-> <<>>]

\* a week node that holds other children but no detail_data
NoDetail == [node |-> TRUE, has_detail |-> FALSE, detail_data |-> <<>>]

\* db.reference(f'/occupancy_statistics/week_{week_num}').get()
RefGet(store, week_num) ==
    IF week_num \in DOMAIN store THEN store[week_num] ELSE NoNode

StoredRecords(store) ==
    LET RECURSIVE Total(_)
        Total(S) == IF S = {} THEN 0
                    ELSE LET w == CHOOSE x \in S : TRUE
                         IN  Len(store[w].detail_data) + Total(S \ {w})
    IN  Total(DOMAIN store)

(***************************************************************************)
(* pandas helpers                                                          *)
(***************************************************************************)
\* detail_df[detail_df['weekday'] == weekday]
WeekdayRows(detail_df, weekday) ==
    SelectSeq(detail_df, LAMBDA r : r.weekday = weekday)

\* the DataFrame has the column iff some record carries the key
HasColumn(df, col) ==
    \E i \in 1..Len(df) :
        CASE col = "weekday" -> df[i].weekday # NA
          [] col = "weekday_zh" -> df[i].weekday_zh # NAStr
          [] col = "time_interval" -> df[i].time_interval # NAStr
          [] OTHER -> df[i].occupancy_count # NA

RECURSIVE Concat(_)
Concat(frames) ==
    IF frames = <<>> THEN <<>> ELSE Head(frames) \o Concat(Tail(frames))

IndexOf(seq, x) == CHOOSE i \in 1..Len(seq) : seq[i] = x

\* mutant: the mean is truncated to one decimal instead of rounded
RoundTenths_Truncate(total, n) == (10 * total) \div n

\* Series.round(1) of the float total / n, in tenths: numpy rounds
\* rint(x * 10) / 10, ties to even
RoundTenths(total, n) ==
    LET q == (10 * total) \div n
        r == (10 * total) % n
    IN  IF 2 * r < n THEN q
        ELSE IF 2 * r > n THEN q + 1
        ELSE IF q % 2 = 0 THEN q ELSE q + 1

RECURSIVE SumCounts(_)
SumCounts(rows) ==
    IF rows = <<>> THEN 0 ELSE Head(rows).occupancy_count + SumCounts(Tail(rows))

\* .agg({'occupancy_count': 'mean'}) then .round(1): NaN counts are skipped,
\* a group with no count at all has mean NaN
MeanRounded(rows) ==
    LET counted == SelectSeq(rows, LAMBDA r : r.occupancy_count # NA)
    IN  IF counted = <<>> THEN NA
        ELSE RoundTenths(SumCounts(counted), Len(counted))

\* groupby sorts its keys: by weekday, then label, then time_interval
KeyBefore(a, b) ==
    \/ a[1] < b[1]
    \/ a[1] = b[1] /\ IndexOf(weekday_names, a[2]) < IndexOf(weekday_names, b[2])
    \/ a[1] = b[1] /\ a[2] = b[2] /\ IndexOf(Intervals, a[3]) < IndexOf(Intervals, b[3])

RECURSIVE SortKeys(_)
SortKeys(S) ==
    IF S = {} THEN <<>>
    ELSE LET k == CHOOSE x \in S : \A y \in S \ {x} : KeyBefore(x, y)
         IN  <<k>> \o SortKeys(S \ {k})

\* groupby(['weekday', 'weekday_zh', 'time_interval']): rows with a NaN key
\* are dropped (dropna=True)
GroupKeys(df) ==
    {<<df[i].weekday, df[i].weekday_zh, df[i].time_interval>> :
        i \in {j \in 1..Len(df) : /\ df[j].weekday # NA
                                  /\ df[j].weekday_zh # NAStr
                                  /\ df[j].time_interval # NAStr}}

GroupRows(df, key) ==
    SelectSeq(df, LAMBDA r : <<r.weekday, r.weekday_zh, r.time_interval>> = key)

\* time_interval.str.split('-').str[0].str.split(':').str[0].astype(int)
StartHour(ti) ==
    CASE ti = "09:00-09:15" -> 9
      [] ti = "12:30-12:45" -> 12
      [] ti = "21:00-21:15" -> 21

\* time_interval.str.split('-').str[0].str.split(':').str[1].astype(int)
StartMinute(ti) ==
    CASE ti = "09:00-09:15" -> 0
      [] ti = "12:30-12:45" -> 30
      [] ti = "21:00-21:15" -> 0

\* combined_df.groupby([...]).agg({'occupancy_count': 'mean'}).reset_index(),
\* occupancy_count rounded to one decimal
Aggregate(combined_df) ==
    LET keys == SortKeys(GroupKeys(combined_df))
    IN  [k \in 1..Len(keys) |->
            [weekday |-> keys[k][1], weekday_zh |-> keys[k][2],
             time_interval |-> keys[k][3],
             occupancy_count |-> MeanRounded(GroupRows(combined_df, keys[k]))]]

(***************************************************************************)
(* get_weekday_aggregated_occupancy                                        *)
(***************************************************************************)
EmptyByWeek == [weekday \in Weekdays |-> <<>>]

\* one pass of the loop "for week_num in weeks_to_fetch" (the fetch itself
\* succeeded)
CollectWeek(by_week, store, week_num) ==
    LET data == RefGet(store, week_num)
        detail_df == data.detail_data
    IN  IF data.node /\ data.has_detail /\ detail_df # <<>>
        THEN [weekday \in Weekdays |->
                 LET weekday_df == WeekdayRows(detail_df, weekday)
                 IN  IF weekday_df # <<>>
                     THEN Append(by_week[weekday],
                                 [week_num |-> week_num, data |-> weekday_df])
                     ELSE by_week[weekday]]
        ELSE by_week

RECURSIVE CollectLoop(_, _, _, _)
CollectLoop(by_week, store, weeks, i) ==
    IF i > Len(weeks) THEN by_week
    ELSE CollectLoop(CollectWeek(by_week, store, weeks[i]), store, weeks, i + 1)

\* mutant: every week with data contributes, not only the newest
LatestData_AllWeeks(entries) ==
    LET RECURSIVE Join(_)
        Join(es) == IF es = <<>> THEN <<>> ELSE Head(es).data \o Join(Tail(es))
    IN  Join(entries)

\* mutant: the oldest week with data is kept instead of the newest
LatestData_Oldest(entries) == entries[Len(entries)].data

\* weekday_data_by_week[weekday][0]['data']
LatestData(entries) == entries[1].data

RECURSIVE LatestLoop(_, _, _)
LatestLoop(acc, by_week, weekday) ==
    IF weekday > 4 THEN acc
    ELSE LatestLoop(IF by_week[weekday] # <<>>
                    THEN Append(acc, LatestData(by_week[weekday]))
                    ELSE acc,
                    by_week, weekday + 1)

AllLatestData(by_week) == LatestLoop(<<>>, by_week, 0)

\* weekday_df of one weekday with the derived hour and minute columns
WithTime(rows) ==
    [k \in 1..Len(rows) |->
        [time_interval |-> rows[k].time_interval,
         occupancy_count |-> rows[k].occupancy_count,
         hour |-> StartHour(rows[k].time_interval),
         minute |-> StartMinute(rows[k].time_interval)]]

\* the dict weekday_data built from aggregated
SplitByWeekday(aggregated) ==
    LET present == {weekday \in Weekdays : WeekdayRows(aggregated, weekday) # <<>>}
    IN  [weekday \in present |-> WithTime(WeekdayRows(aggregated, weekday))]

NoData == [weekday \in {} |-> <<>>]

\* "return weekday_data if weekday_data else None"
ReturnValue(by_weekday) ==
    IF DOMAIN by_weekday # {} THEN [none |-> FALSE, data |-> by_weekday]
    ELSE [none |-> TRUE, data |-> NoData]

\* detail_df['weekday'] raises KeyError when no record of the week has the key
WeekKeyError(store, week_num) ==
    LET data == RefGet(store, week_num)
    IN  /\ data.node /\ data.has_detail /\ data.detail_data # <<>>
        /\ ~HasColumn(data.detail_data, "weekday")

\* groupby / agg raise KeyError when combined_df lacks one of the columns
GroupKeyError(combined_df) ==
    \/ ~HasColumn(combined_df, "weekday_zh")
    \/ ~HasColumn(combined_df, "time_interval")
    \/ ~HasColumn(combined_df, "occupancy_count")

\* no st.error; otherwise fetch_week is the week whose ref.get() raised (0 when
\* the exception came from pandas)
NoError == [shown |-> FALSE, fetch_week |-> 0]

\* the result of one call: the locals and the value returned.  failing is the
\* week whose ref.get() raises (0: none does).  Any exception is caught by the
\* one "except Exception" around the whole body: st.error, return None.
get_weekday_aggregated_occupancy(store, week, failing) ==
    LET weeks == WeekWindow(week)
        fetch_raises == \E i \in 1..Len(weeks) :
                            weeks[i] = failing \/ WeekKeyError(store, weeks[i])
        by_week == CollectLoop(EmptyByWeek, store, weeks, 1)
        latest == AllLatestData(by_week)
        combined_df == Concat(latest)
        fetch_week == IF \E i \in 1..Len(weeks) : weeks[i] = failing
                      THEN failing ELSE 0
        raised == [weeks_to_fetch |-> weeks, weekday_data_by_week |-> EmptyByWeek,
                   all_latest_data |-> <<>>,
                   error |-> [shown |-> TRUE, fetch_week |-> fetch_week],
                   result |-> [none |-> TRUE, data |-> NoData]]
    IN  IF fetch_raises THEN raised
        ELSE IF latest = <<>>
        THEN [weeks_to_fetch |-> weeks, weekday_data_by_week |-> by_week,
              all_latest_data |-> latest, error |-> NoError,
              result |-> [none |-> TRUE, data |-> NoData]]
        ELSE IF GroupKeyError(combined_df) THEN raised
        ELSE [weeks_to_fetch |-> weeks, weekday_data_by_week |-> by_week,
              all_latest_data |-> latest, error |-> NoError,
              result |-> ReturnValue(SplitByWeekday(Aggregate(combined_df)))]

(***************************************************************************)
(* display_live_statistics: the Chart Normalizer                           *)
(***************************************************************************)
\* interval_data[(hour >= 9) & (hour < 21)]
InHours(rows) ==
    SelectSeq(rows, LAMBDA r : r.hour >= FirstHour /\ r.hour < LastHour)

\* Series.max(): NaN is skipped, NaN when nothing is left
RECURSIVE MaxCount(_)
MaxCount(rows) ==
    IF rows = <<>> THEN NA
    ELSE LET rest == MaxCount(Tail(rows))
             c == Head(rows).occupancy_count
         IN  IF c = NA THEN rest
             ELSE IF rest = NA \/ c > rest THEN c ELSE rest

\* all_max_occupancy = 1 before the loop, in tenths
InitialMax == 10

RECURSIVE MaxLoop(_, _, _)
MaxLoop(all_max, data, weekday) ==
    IF weekday > 4 THEN all_max
    ELSE IF weekday \in DOMAIN data /\ InHours(data[weekday]) # <<>>
              /\ MaxCount(InHours(data[weekday])) # NA
              /\ MaxCount(InHours(data[weekday])) > all_max
         THEN MaxLoop(MaxCount(InHours(data[weekday])), data, weekday + 1)
         ELSE MaxLoop(all_max, data, weekday + 1)

AllMaxOccupancy(data) == MaxLoop(InitialMax, data, 0)

NaN == [n |-> 0, d |-> 0]

\* mutant: the 0.8 headroom factor is left out
Height_NoHeadroom(occupancy, all_max) ==
    IF all_max > 0 THEN [n |-> occupancy * 10, d |-> all_max * 10]
    ELSE [n |-> 0, d |-> 1]

\* (occupancy / all_max_occupancy) * 0.8 if all_max_occupancy > 0 else 0
Height(occupancy, all_max) ==
    IF all_max > 0
    THEN IF occupancy = NA THEN NaN ELSE [n |-> occupancy * 8, d |-> all_max * 10]
    ELSE [n |-> 0, d |-> 1]

\* occupancy >= all_max_occupancy * 0.8 is '#d946a6', anything else '#94a3b8'
Color(occupancy, all_max) ==
    IF occupancy # NA /\ occupancy * 10 >= all_max * 8 THEN "#d946a6" ELSE "#94a3b8"

\* one rect of the chart; time_position is held in minutes after 9:00
Bucket(row, all_max) ==
    [time_position |-> (row.hour - FirstHour) * 60 + row.minute,
     occupancy |-> row.occupancy_count,
     height |-> Height(row.occupancy_count, all_max),
     color |-> Color(row.occupancy_count, all_max)]

\* mutant: a weekday without data gets a chart with one bucket of height 0
Tab_ZeroChart(data, weekday, all_max) ==
    IF weekday \notin DOMAIN data \/ InHours(data[weekday]) = <<>>
    THEN [info |-> FALSE,
          shapes |-> <<[time_position |-> 0, occupancy |-> 0,
                        height |-> [n |-> 0, d |-> 1], color |-> "#94a3b8"]>>]
    ELSE LET interval_data == InHours(data[weekday])
         IN  [info |-> FALSE,
              shapes |-> [k \in 1..Len(interval_data) |->
                             [time_position |->
                                  (interval_data[k].hour - 9) * 60 + interval_data[k].minute,
                              occupancy |-> interval_data[k].occupancy_count,
                              height |-> [n |-> interval_data[k].occupancy_count * 8,
                                          d |-> all_max * 10],
                              color |-> "#94a3b8"]]]

\* the body of "with tab": st.info and no chart, or the chart's rects
Tab(data, weekday, all_max) ==
    IF weekday \notin DOMAIN data \/ InHours(data[weekday]) = <<>>
    THEN [info |-> TRUE, shapes |-> <<>>]
    ELSE LET interval_data == InHours(data[weekday])
         IN  [info |-> FALSE,
              shapes |-> [k \in 1..Len(interval_data) |->
                             Bucket(interval_data[k], all_max)]]

NoTabs == [weekday \in Weekdays |-> [info |-> FALSE, shapes |-> <<>>]]

\* what the fragment draws for the value get_weekday_aggregated_occupancy gave
Render(result) ==
    IF result.none \/ DOMAIN result.data = {}
    THEN [shown |-> "no_stats", tabs |-> NoTabs]
    ELSE [shown |-> "tabs",
          tabs |-> [weekday \in Weekdays |->
                       Tab(result.data, weekday, AllMaxOccupancy(result.data))]]

(***************************************************************************)
(* display_live_statistics: the weekday selector                           *)
(*                                                                         *)
(* selector holds what the browser keeps of lines 541-581 and 598 (the     *)
(* title, the five tab buttons, the tab shown) and the variables of the    *)
(* script of lines 684-807.  Elements that a run emits unchanged stay      *)
(* mounted; elements that a run does not emit, or emits with another       *)
(* content, are removed or replaced.                                       *)
(***************************************************************************)
Wednesday == 2

\* len(weekday_names): the tabs st.tabs creates
TabCount == 5

\* lines 513-517
DefaultWeekday(today) == IF today >= 5 THEN 0 ELSE today

\* JavaScript's %: the sign follows the dividend
JsRem(a, b) == IF a >= 0 THEN a % b ELSE -((-a) % b)

\* mutant: Prev without the + 5
PrevWeekday_NoWrap(d) == JsRem(d - 1, 5)

\* (currentWeekday - 1 + 5) % 5
PrevWeekday(d) == JsRem(d - 1 + 5, 5)

\* (currentWeekday + 1) % 5
NextWeekday(d) == JsRem(d + 1, 5)

\* the fragment shows no selector
NoSelector ==
    [default_weekday |-> NA, weekday_title |-> NAStr, dom_tabs |-> 0,
     active_tab |-> NA, currentWeekday |-> NA, tabButtons |-> 0,
     isInitialized |-> FALSE, observer |-> "none", timer |-> "none",
     listeners |-> 0]

\* the title and the script are (re)created for default weekday dw; st.tabs
\* is emitted with the same labels, so tabs already on the page stay
Mount(s, dw) ==
    [default_weekday |-> dw, weekday_title |-> weekday_names[dw + 1],
     dom_tabs |-> s.dom_tabs, active_tab |-> s.active_tab,
     currentWeekday |-> dw, tabButtons |-> 0, isInitialized |-> FALSE,
     observer |-> "none", timer |-> "none", listeners |-> 0]

\* what a run of display_live_statistics leaves of the selector
EmitSelector(s, result, today) ==
    IF result.none \/ DOMAIN result.data = {} THEN NoSelector
    ELSE IF s.default_weekday = DefaultWeekday(today) THEN s
    ELSE Mount(s, DefaultWeekday(today))

switchWeekday(s, newWeekday) ==
    IF newWeekday < 0 \/ newWeekday > 4 THEN s
    ELSE IF s.tabButtons # 5 THEN s
    ELSE [s EXCEPT !.active_tab = newWeekday,
                   !.currentWeekday = newWeekday,
                   !.weekday_title = weekday_names[newWeekday + 1]]

\* one more click listener on btn-prev and on btn-next, one more pair of
\* touch listeners on the tabs
bindEvents(s) == [s EXCEPT !.listeners = @ + 1]

\* mutant: init never records that it ran
init_NoFlag(s) ==
    IF s.isInitialized THEN s
    ELSE bindEvents(switchWeekday(s, s.currentWeekday))

init(s) ==
    IF s.isInitialized THEN s
    ELSE [bindEvents(switchWeekday(s, s.currentWeekday)) EXCEPT !.isInitialized = TRUE]

\* the MutationObserver callback of waitForTabs
ObserverCallback(s) ==
    IF s.observer # "observing" THEN s
    ELSE IF s.dom_tabs >= 5
    THEN [init([s EXCEPT !.tabButtons = s.dom_tabs]) EXCEPT !.observer = "disconnected"]
    ELSE s

\* the setTimeout callback of waitForTabs
TimeoutCallback(s) ==
    LET stopped == [s EXCEPT !.observer = "disconnected", !.timer = "fired"]
    IN  IF ~stopped.isInitialized /\ stopped.dom_tabs >= 5
        THEN init([stopped EXCEPT !.tabButtons = stopped.dom_tabs])
        ELSE stopped

\* every click listener bound to btn-prev runs
RECURSIVE PrevListeners(_, _)
PrevListeners(s, n) ==
    IF n = 0 THEN s
    ELSE PrevListeners(switchWeekday(s, PrevWeekday(s.currentWeekday)), n - 1)

\* every click listener bound to btn-next runs
RECURSIVE NextListeners(_, _)
NextListeners(s, n) ==
    IF n = 0 THEN s
    ELSE NextListeners(switchWeekday(s, NextWeekday(s.currentWeekday)), n - 1)

SwipeThreshold == 80

\* the touchend listener: swipeDiff = touchStartX - touchEndX
TouchEnd(s, swipeDiff, on_chart) ==
    IF on_chart THEN s
    ELSE IF swipeDiff > SwipeThreshold THEN NextListeners(s, 1)
    ELSE IF -swipeDiff > SwipeThreshold THEN PrevListeners(s, 1)
    ELSE s

RECURSIVE TouchListeners(_, _, _, _)
TouchListeners(s, swipeDiff, on_chart, n) ==
    IF n = 0 THEN s
    ELSE TouchListeners(TouchEnd(s, swipeDiff, on_chart), swipeDiff, on_chart, n - 1)

(***************************************************************************)
(* get_seat_status and display_live_seat_status: the Live Status Summarizer *)
(***************************************************************************)
SeatIds == 1..MaxSeats

RECURSIVE SeatRows(_, _)
SeatRows(data, ids) ==
    IF ids = {} THEN <<>>
    ELSE LET seat_id == CHOOSE x \in ids : \A y \in ids : x <= y
         IN  <<[seat_id |-> seat_id,
                status |-> IF data[seat_id] = "NA" THEN "unknown" ELSE data[seat_id]]>>
             \o SeatRows(data, ids \ {seat_id})

\* the DataFrame sorted by seat_id, or None ("if not data", or the except)
get_seat_status(data, failing) ==
    IF failing THEN [none |-> TRUE, error |-> TRUE, df |-> <<>>]
    ELSE IF DOMAIN data = {} THEN [none |-> TRUE, error |-> FALSE, df |-> <<>>]
    ELSE [none |-> FALSE, error |-> FALSE, df |-> SeatRows(data, DOMAIN data)]

\* mutant: every seat that is not "available" counts as occupied
OccupiedSeats_NotAvailable(df) == Len(SelectSeq(df, LAMBDA r : r.status # "available"))

\* len(df[df['status'] == 'occupied'])
OccupiedSeats(df) == Len(SelectSeq(df, LAMBDA r : r.status = "occupied"))

\* (occupied_seats / total_seats * 100) if total_seats > 0 else 0
OccupancyRate(occupied_seats, total_seats) ==
    IF total_seats > 0 THEN [n |-> occupied_seats * 100, d |-> total_seats]
    ELSE [n |-> 0, d |-> 1]

LowRate == 30

MediumRate == 70

\* the colour of the rate card
RateColor(rate) ==
    IF rate.n <= LowRate * rate.d THEN "#51cf66"
    ELSE IF rate.n <= MediumRate * rate.d THEN "#ffd43b"
    ELSE "#ff6b6b"

NoSeatView == [shown |-> "not_rendered", total_seats |-> 0, occupied_seats |-> 0,
               available_seats |-> 0, occupancy_rate |-> [n |-> 0, d |-> 1],
               color |-> ""]

SeatWarning == [shown |-> "warning", total_seats |-> 0, occupied_seats |-> 0,
                available_seats |-> 0, occupancy_rate |-> [n |-> 0, d |-> 1],
                color |-> ""]

\* what the fragment draws for the DataFrame get_seat_status gave
Summarize(got) ==
    IF got.none \/ got.df = <<>> THEN SeatWarning
    ELSE LET total_seats == Len(got.df)
             occupied_seats == OccupiedSeats(got.df)
             occupancy_rate == OccupancyRate(occupied_seats, total_seats)
         IN  [shown |-> "metrics", total_seats |-> total_seats,
              occupied_seats |-> occupied_seats,
              available_seats |-> total_seats - occupied_seats,
              occupancy_rate |-> occupancy_rate,
              color |-> RateColor(occupancy_rate)]

(***************************************************************************)
(* Actions                                                                 *)
(***************************************************************************)
\* the external writer stores one more record under week_<w>
WriteRecord(w, r) ==
    /\ StoredRecords(occupancy_statistics) < MaxRecords
    /\ occupancy_statistics' =
           [occupancy_statistics EXCEPT
               ![w] = [node |-> TRUE, has_detail |-> TRUE,
                       detail_data |-> Append(@.detail_data, r)]]
    /\ UNCHANGED <<current_week, stats_vars, seat_vars, selector_vars>>

\* the external writer creates week_<w> without detail_data
CreateWeekNode(w) ==
    /\ ~occupancy_statistics[w].node
    /\ occupancy_statistics' = [occupancy_statistics EXCEPT ![w] = NoDetail]
    /\ UNCHANGED <<current_week, stats_vars, seat_vars, selector_vars>>

\* mutant: the running maximum of the previous run is carried into this one
display_live_statistics_KeepsMax(failing) ==
    \E got \in {get_weekday_aggregated_occupancy(occupancy_statistics,
                                                  current_week, failing)} :
        /\ weeks_to_fetch' = got.weeks_to_fetch
        /\ weekday_data_by_week' = got.weekday_data_by_week
        /\ all_latest_data' = got.all_latest_data
        /\ weekday_data' = got.result
        /\ stats_error' = got.error
        /\ all_max_occupancy' = MaxLoop(all_max_occupancy, got.result.data, 0)
        /\ stats_view' = Render(got.result)
        /\ selector' = EmitSelector(selector, got.result, current_weekday)
        /\ UNCHANGED <<current_week, occupancy_statistics, seat_vars, current_weekday>>

\* one run of the fragment display_live_statistics (every 10 s); failing is
\* the week whose fetch raises, 0 when none does
display_live_statistics(failing) ==
    \E got \in {get_weekday_aggregated_occupancy(occupancy_statistics,
                                                  current_week, failing)} :
        /\ weeks_to_fetch' = got.weeks_to_fetch
        /\ weekday_data_by_week' = got.weekday_data_by_week
        /\ all_latest_data' = got.all_latest_data
        /\ weekday_data' = got.result
        /\ stats_error' = got.error
        /\ all_max_occupancy' = AllMaxOccupancy(got.result.data)
        /\ stats_view' = Render(got.result)
        /\ selector' = EmitSelector(selector, got.result, current_weekday)
        /\ UNCHANGED <<current_week, occupancy_statistics, seat_vars, current_weekday>>

\* the external writer sets the status of one seat
WriteSeat(seat_id, status) ==
    /\ seat_status' = [s \in DOMAIN seat_status \cup {seat_id} |->
                          IF s = seat_id THEN status ELSE seat_status[s]]
    /\ UNCHANGED <<current_week, occupancy_statistics, stats_vars, seat_error, seat_view,
                   selector_vars>>

\* one run of the fragment display_live_seat_status (every 5 s)
display_live_seat_status(failing) ==
    \E got \in {get_seat_status(seat_status, failing)} :
        /\ seat_error' = got.error
        /\ seat_view' = Summarize(got)
        /\ UNCHANGED <<current_week, occupancy_statistics, stats_vars, seat_status,
                       selector_vars>>

\* the wall clock moves on: datetime.now() gives another ISO week
Tick ==
    /\ current_week' \in ClockWeeks \ {current_week}
    /\ UNCHANGED <<occupancy_statistics, stats_vars, seat_vars, selector_vars>>

\* midnight passes
DayPasses ==
    /\ current_weekday' = (current_weekday + 1) % 7
    /\ UNCHANGED <<current_week, occupancy_statistics, stats_vars, seat_vars, selector>>

SelectorStep(s) ==
    /\ selector' = s
    /\ UNCHANGED <<current_week, occupancy_statistics, stats_vars, seat_vars,
                   current_weekday>>

\* the frame of components.html has loaded: the script runs waitForTabs
waitForTabs ==
    /\ selector.default_weekday # NA
    /\ selector.observer = "none" /\ selector.timer = "none"
    /\ SelectorStep([selector EXCEPT !.observer = "observing", !.timer = "pending"])

\* the browser inserts the five tab buttons of st.tabs, first tab shown; the
\* observer, if connected, sees the mutation
TabsRendered ==
    /\ stats_view.shown = "tabs"
    /\ selector.dom_tabs = 0
    /\ SelectorStep(ObserverCallback([selector EXCEPT !.dom_tabs = TabCount,
                                                      !.active_tab = 0]))

\* anything else changes under stAppViewContainer
OtherMutation ==
    /\ selector.observer = "observing"
    /\ SelectorStep(ObserverCallback(selector))

\* five seconds after waitForTabs
TimeoutFires ==
    /\ selector.timer = "pending"
    /\ SelectorStep(TimeoutCallback(selector))

ClickPrev ==
    /\ selector.default_weekday # NA
    /\ SelectorStep(PrevListeners(selector, selector.listeners))

ClickNext ==
    /\ selector.default_weekday # NA
    /\ SelectorStep(NextListeners(selector, selector.listeners))

Swipe(swipeDiff, on_chart) ==
    /\ selector.dom_tabs > 0
    /\ SelectorStep(TouchListeners(selector, swipeDiff, on_chart, selector.listeners))

(***************************************************************************)
(* Specifications                                                          *)
(***************************************************************************)
InitViews ==
    /\ weeks_to_fetch = <<>>
    /\ weekday_data_by_week = EmptyByWeek
    /\ all_latest_data = <<>>
    /\ weekday_data = [none |-> TRUE, data |-> NoData]
    /\ stats_error = NoError
    /\ all_max_occupancy = InitialMax
    /\ stats_view = [shown |-> "not_rendered", tabs |-> NoTabs]
    /\ current_weekday = Wednesday
    /\ seat_error = FALSE
    /\ seat_view = NoSeatView
    /\ selector = NoSelector

EmptyStore == [w \in WeekKeys |-> NoNode]

NoSeats == [s \in {} |-> "NA"]

Init ==
    /\ current_week \in ClockWeeks
    /\ occupancy_statistics = EmptyStore
    /\ seat_status = NoSeats
    /\ InitViews

FailChoices == {0} \cup WeekKeys

\* the page has not been opened yet
PageClosed == stats_view.shown = "not_rendered"

\* the weekday-profile pipeline over well-formed records: the writer fills
\* the store, then the page is opened and the fragment runs any number of
\* times on that store
NextStats ==
    \/ PageClosed /\ \E w \in WeekKeys, r \in WellFormedRecs : WriteRecord(w, r)
    \/ PageClosed /\ \E w \in WeekKeys : CreateWeekNode(w)
    \/ \E failing \in FailChoices : display_live_statistics(failing)

SpecStats == Init /\ [][NextStats]_vars

\* the same pipeline when the store also holds malformed records
NextMalformed ==
    \/ PageClosed /\ \E w \in WeekKeys, r \in WellFormedRecs \cup MalformedRecs :
                         WriteRecord(w, r)
    \/ \E failing \in FailChoices : display_live_statistics(failing)

SpecMalformed == Init /\ [][NextMalformed]_vars

\* the Week Window Resolver for every ISO week
InitResolver ==
    /\ current_week \in 1..PrevYearWeeks
    /\ occupancy_statistics = EmptyStore
    /\ seat_status = NoSeats
    /\ InitViews

NextResolver == \E failing \in FailChoices : display_live_statistics(failing)

SpecResolver == InitResolver /\ [][NextResolver]_vars

\* the live seat summary
NextSeats ==
    \/ \E seat_id \in SeatIds, status \in Statuses : WriteSeat(seat_id, status)
    \/ \E failing \in BOOLEAN : display_live_seat_status(failing)

SpecSeats == Init /\ [][NextSeats]_vars

\* the Week Window Resolver on week numbers no calendar gives: 0 and below
InvalidWeeks == {-53, -45, -1, 0}

InitInvalidWeek ==
    /\ current_week \in InvalidWeeks
    /\ occupancy_statistics = EmptyStore
    /\ seat_status = NoSeats
    /\ InitViews

SpecInvalidWeek == InitInvalidWeek /\ [][NextStats]_vars

\* both fragments, the clock and the external writers in any order
CycleRecs == {Rec(0, ZhOf(0), Intervals[1], 1), Rec(0, ZhOf(0), Intervals[1], 4)}

NextCycles ==
    \/ \E r \in CycleRecs : WriteRecord(1, r)
    \/ \E status \in {"occupied", "available"} : WriteSeat(1, status)
    \/ Tick
    \/ \E failing \in FailChoices : display_live_statistics(failing)
    \/ \E failing \in BOOLEAN : display_live_seat_status(failing)

SpecCycles == Init /\ [][NextCycles]_vars

\* the weekday selector: week_1 holds one Monday record, the fragment runs
\* (a fetch may fail), days pass, the browser and the user act
SelectorStore ==
    [EmptyStore EXCEPT ![1] = [node |-> TRUE, has_detail |-> TRUE,
                               detail_data |-> <<Rec(0, ZhOf(0), Intervals[1], 4)>>]]

InitSelector ==
    /\ current_week = 2
    /\ occupancy_statistics = SelectorStore
    /\ seat_status = NoSeats
    /\ weeks_to_fetch = <<>>
    /\ weekday_data_by_week = EmptyByWeek
    /\ all_latest_data = <<>>
    /\ weekday_data = [none |-> TRUE, data |-> NoData]
    /\ stats_error = NoError
    /\ all_max_occupancy = InitialMax
    /\ stats_view = [shown |-> "not_rendered", tabs |-> NoTabs]
    /\ seat_error = FALSE
    /\ seat_view = NoSeatView
    /\ current_weekday \in 0..6
    /\ selector = NoSelector

SwipeDiffs == {-81, -80, 0, 80, 81}

BrowserStep ==
    \/ waitForTabs
    \/ TabsRendered
    \/ OtherMutation
    \/ TimeoutFires
    \/ ClickPrev
    \/ ClickNext
    \/ \E swipeDiff \in SwipeDiffs, on_chart \in BOOLEAN : Swipe(swipeDiff, on_chart)

NextSelector ==
    \/ \E failing \in {0, 1} : display_live_statistics(failing)
    \/ DayPasses
    \/ BrowserStep

SpecSelector == InitSelector /\ [][NextSelector]_vars

\* one page load: the fragment keeps succeeding on the same day
NextLoad ==
    \/ display_live_statistics(0)
    \/ BrowserStep

\* the browser runs a loaded script and fires a pending timer
SpecLoad ==
    /\ InitSelector
    /\ [][NextLoad]_vars
    /\ WF_vars(waitForTabs)
    /\ WF_vars(TimeoutFires)

Next == NextStats \/ NextSeats

Spec == Init /\ [][Next]_vars

(***************************************************************************)
(* Properties                                                              *)
(***************************************************************************)
\* the fragment has run at least once
Rendered == stats_view.shown # "not_rendered"

\* ... and its last run raised nothing
Completed == Rendered /\ ~stats_error.shown

\* C1: for every current ISO week W in 1..53 the week list has exactly 12
\* entries, entry i (from 0) is W - i when that is positive and 53 + (W - i)
\* otherwise, every entry lies in 1..53 and no week number appears twice.
C1_WeekWindow ==
    Rendered =>
        /\ Len(weeks_to_fetch) = 12
        /\ \A i \in 0..11 :
              /\ weeks_to_fetch[i + 1] = IF current_week - i > 0 THEN current_week - i
                                         ELSE 53 + (current_week - i)
              /\ weeks_to_fetch[i + 1] \in 1..53
        /\ \A i, j \in 1..12 : i # j => weeks_to_fetch[i] # weeks_to_fetch[j]

\* week 5: the window wraps into the previous year and ends at week 47
C1_Witness ==
    /\ Rendered
    /\ current_week = 5
    /\ weeks_to_fetch[5] = 1
    /\ weeks_to_fetch[6] = 53
    /\ weeks_to_fetch[12] = 47

\* week_<week_num> holds at least one record of weekday d
HasWeekdayRecord(week_num, d) ==
    /\ week_num \in DOMAIN occupancy_statistics
    /\ occupancy_statistics[week_num].node
    /\ occupancy_statistics[week_num].has_detail
    /\ \E j \in 1..Len(occupancy_statistics[week_num].detail_data) :
           occupancy_statistics[week_num].detail_data[j].weekday = d

\* positions of the window whose week holds a record of weekday d
DataWeeks(d) ==
    {i \in 1..Len(weeks_to_fetch) : HasWeekdayRecord(weeks_to_fetch[i], d)}

\* the most recent week of the window that holds a record of weekday d
FirstDataWeek(d) ==
    weeks_to_fetch[CHOOSE i \in DataWeeks(d) : \A j \in DataWeeks(d) : i <= j]

\* the records of weekday d in that week, in stored order
SourceRows(d) ==
    SelectSeq(occupancy_statistics[FirstDataWeek(d)].detail_data,
              LAMBDA r : r.weekday = d)

\* C2: for each weekday 0..4 independently the records that feed its profile
\* are those of the first week, in window order, that holds a record of that
\* weekday; missing weeks, weeks without detail_data and weeks without such a
\* record are skipped, and older weeks contribute nothing.
C2_LatestWeekSelected ==
    Completed =>
        /\ \A d \in 0..4 :
              IF DataWeeks(d) = {}
              THEN /\ weekday_data_by_week[d] = <<>>
                   /\ d \notin DOMAIN weekday_data.data
              ELSE /\ weekday_data_by_week[d][1].week_num = FirstDataWeek(d)
                   /\ \E k \in 1..Len(all_latest_data) :
                          all_latest_data[k] = SourceRows(d)
                   /\ d \in DOMAIN weekday_data.data
        /\ Len(all_latest_data) = Cardinality({d \in 0..4 : DataWeeks(d) # {}})

\* in week 2, Monday has data in week 1 (W-1) and in week 52 (W-3) with
\* different counts, and week 1 was chosen
C2_Witness ==
    /\ Completed
    /\ current_week = 2
    /\ HasWeekdayRecord(1, 0)
    /\ HasWeekdayRecord(52, 0)
    /\ occupancy_statistics[1].detail_data # occupancy_statistics[52].detail_data
    /\ weekday_data_by_week[0][1].week_num = 1
    /\ all_latest_data[1] = occupancy_statistics[1].detail_data

\* the sum of occupancy_count over the positions J of a frame
RECURSIVE SumAt(_, _)
SumAt(frame, J) ==
    IF J = {} THEN 0
    ELSE LET j == CHOOSE x \in J : TRUE
         IN  frame[j].occupancy_count + SumAt(frame, J \ {j})

\* positions of the frame that hold weekday d and time_interval ti
GroupAt(frame, d, ti) ==
    {j \in 1..Len(frame) : frame[j].weekday = d /\ frame[j].time_interval = ti}

Abs(x) == IF x < 0 THEN -x ELSE x

\* v tenths is the mean total / n rounded to one decimal
IsMeanToOneDecimal(v, total, n) == n > 0 /\ 2 * Abs(10 * total - n * v) <= n

\* v tenths is exactly the mean total / n
IsExactMean(v, total, n) == n > 0 /\ n * v = 10 * total

\* all records of week_<FirstDataWeek(d)>
SourceWeek(d) == occupancy_statistics[FirstDataWeek(d)].detail_data

\* C3 as stated: every profile bucket is the arithmetic mean of occupancy_count
\* over all records with its weekday and time_interval in the one week selected
\* for that weekday.
C3_ExactMean ==
    Completed =>
        \A d \in DOMAIN weekday_data.data :
            \A k \in 1..Len(weekday_data.data[d]) :
                LET row == weekday_data.data[d][k]
                    J == GroupAt(SourceWeek(d), d, row.time_interval)
                IN  IsExactMean(row.occupancy_count, SumAt(SourceWeek(d), J),
                                Cardinality(J))

\* C3 amended: every profile bucket is the arithmetic mean, rounded to one
\* decimal, of occupancy_count over all records with its weekday and
\* time_interval in the one week selected for that weekday (the first window
\* week with a record of that weekday); no other week contributes.
C3_RoundedMeanOfSelectedWeek ==
    Completed =>
        \A d \in DOMAIN weekday_data.data :
            /\ DataWeeks(d) # {}
            /\ \A k \in 1..Len(weekday_data.data[d]) :
                   LET row == weekday_data.data[d][k]
                       J == GroupAt(SourceWeek(d), d, row.time_interval)
                   IN  IsMeanToOneDecimal(row.occupancy_count,
                                          SumAt(SourceWeek(d), J), Cardinality(J))

\* Monday 09:00: week 1 holds counts 1 and 4, the older week 52 holds 0, and
\* the bucket is 2.5; Tuesday comes from week 52
C3_Witness ==
    /\ Completed
    /\ current_week = 2
    /\ occupancy_statistics[1].detail_data =
           <<Rec(0, ZhOf(0), Intervals[1], 1), Rec(0, ZhOf(0), Intervals[1], 4)>>
    /\ HasWeekdayRecord(52, 0)
    /\ 0 \in DOMAIN weekday_data.data
    /\ weekday_data.data[0][1].occupancy_count = 25

\* the selected records of weekday d, as the call kept them
SelectedRows(d) ==
    SelectSeq(Concat(all_latest_data), LAMBDA r : r.weekday = d)

\* C4: a weekday's profile has exactly one bucket per distinct time_interval
\* among its selected records and none for any other interval; each bucket is
\* the group's mean rounded to one decimal; counts [4, 6] give 5.0 and [3]
\* gives 3.0.
C4_OneBucketPerInterval ==
    /\ Aggregate(<<Rec(0, "Mon", "09:00-09:15", 4), Rec(0, "Mon", "12:30-12:45", 3),
                   Rec(0, "Mon", "09:00-09:15", 6)>>)
         = << [weekday |-> 0, weekday_zh |-> "Mon", time_interval |-> "09:00-09:15",
               occupancy_count |-> 50],
              [weekday |-> 0, weekday_zh |-> "Mon", time_interval |-> "12:30-12:45",
               occupancy_count |-> 30] >>
    /\ Completed =>
          \A d \in 0..4 :
              LET frame == SelectedRows(d)
                  used == {frame[j].time_interval : j \in 1..Len(frame)}
              IN  IF used = {} THEN d \notin DOMAIN weekday_data.data
                  ELSE /\ d \in DOMAIN weekday_data.data
                       /\ {weekday_data.data[d][k].time_interval :
                              k \in 1..Len(weekday_data.data[d])} = used
                       /\ Len(weekday_data.data[d]) = Cardinality(used)
                       /\ \A k \in 1..Len(weekday_data.data[d]) :
                              LET row == weekday_data.data[d][k]
                                  J == GroupAt(frame, d, row.time_interval)
                              IN  IsMeanToOneDecimal(row.occupancy_count,
                                                     SumAt(frame, J), Cardinality(J))

\* Monday's three selected records fall into two intervals: two buckets
C4_Witness ==
    /\ Completed
    /\ 0 \in DOMAIN weekday_data.data
    /\ Len(SelectedRows(0)) = 3
    /\ Len(weekday_data.data[0]) = 2
    /\ \E k \in 1..2 : weekday_data.data[0][k].occupancy_count = 25

\* C5: when the fetch of one week raises, only that week counts as empty:
\* every weekday with a record in some other week of the window still has its
\* profile in the result.
C5_FailedFetchDegradesOnlyItsWeek ==
    (Rendered /\ stats_error.shown /\ stats_error.fetch_week # 0) =>
        \A d \in 0..4 :
            (\E i \in DataWeeks(d) : weeks_to_fetch[i] # stats_error.fetch_week)
                => d \in DOMAIN weekday_data.data

\* week 1 holds a Monday record, the fetch of week 52 raised, and the call
\* returned None with the error shown
C5_Witness ==
    /\ Rendered
    /\ current_week = 2
    /\ stats_error.shown /\ stats_error.fetch_week = 52
    /\ HasWeekdayRecord(1, 0)
    /\ weekday_data.none
    /\ stats_view.shown = "no_stats"

\* C6: a weekday with no record in any week of the window has no profile (its
\* key is absent; the result is None, never an empty mapping, when no weekday
\* has data), its tab shows the no-data notice and no bucket, and every bucket
\* drawn is backed by a profile row.
C6_NoDataIsExplicit ==
    Rendered =>
        /\ \A d \in 0..4 : DataWeeks(d) = {} => d \notin DOMAIN weekday_data.data
        /\ weekday_data.none <=> DOMAIN weekday_data.data = {}
        /\ (\A d \in 0..4 : DataWeeks(d) = {}) => weekday_data.none
        /\ weekday_data.none => stats_view.shown = "no_stats"
        /\ \A d \in 0..4 :
              d \notin DOMAIN weekday_data.data =>
                  /\ stats_view.tabs[d].shapes = <<>>
                  /\ stats_view.shown = "no_stats" \/ stats_view.tabs[d].info
        /\ \A d \in 0..4 :
              \A k \in 1..Len(stats_view.tabs[d].shapes) :
                  /\ d \in DOMAIN weekday_data.data
                  /\ \E j \in 1..Len(weekday_data.data[d]) :
                         /\ weekday_data.data[d][j].occupancy_count
                                = stats_view.tabs[d].shapes[k].occupancy
                         /\ (weekday_data.data[d][j].hour - 9) * 60
                                + weekday_data.data[d][j].minute
                                = stats_view.tabs[d].shapes[k].time_position

\* Monday has a chart, Tuesday has no record anywhere and shows the notice
C6_Witness ==
    /\ Completed
    /\ stats_view.shown = "tabs"
    /\ DataWeeks(1) = {}
    /\ 1 \notin DOMAIN weekday_data.data
    /\ stats_view.tabs[1].info
    /\ stats_view.tabs[1].shapes = <<>>
    /\ stats_view.tabs[0].shapes # <<>>

\* the store without its malformed records
CleanStore ==
    [w \in DOMAIN occupancy_statistics |->
        [occupancy_statistics[w] EXCEPT !.detail_data = SelectSeq(@, IsWellFormed)]]

\* C7: a record that misses an expected field is dropped and nothing else
\* changes: the result is the one the same store gives without its malformed
\* records.
C7_MalformedRecordsAreDropped ==
    (Rendered /\ stats_error.fetch_week = 0) =>
        weekday_data
            = get_weekday_aggregated_occupancy(CleanStore, current_week, 0).result

\* week 1 holds only a record without weekday and weekday_zh, week 52 a
\* well-formed Monday record; no fetch raised, yet the call returned None
C7_Witness ==
    /\ Rendered
    /\ current_week = 2
    /\ occupancy_statistics[1].detail_data = <<Rec(NA, NAStr, Intervals[1], 4)>>
    /\ HasWeekdayRecord(52, 0)
    /\ stats_error.shown /\ stats_error.fetch_week = 0
    /\ weekday_data.none

\* the buckets drawn in the five charts, as <<weekday, position>>
Drawn == {<<d, k>> \in (0..4) \X (1..Len(Intervals) * 2) :
             k <= Len(stats_view.tabs[d].shapes)}

BucketAt(p) == stats_view.tabs[p[1]].shapes[p[2]]

\* the occupancy_count values (tenths) of the drawn buckets
DrawnCounts == {BucketAt(p).occupancy : p \in Drawn}

SetMax(S) == CHOOSE m \in S : \A x \in S : x <= m

\* the rational h equals n / d
RatEq(h, n, d) == h.d # 0 /\ d # 0 /\ h.n * d = n * h.d

IsPeak(b) == b.color = "#d946a6"

\* every drawn bucket is normalised against maxVal (tenths)
NormalisedBy(maxVal) ==
    \A p \in Drawn :
        /\ RatEq(BucketAt(p).height, BucketAt(p).occupancy * 8, maxVal * 10)
        /\ IsPeak(BucketAt(p)) <=> BucketAt(p).occupancy * 10 >= 8 * maxVal

\* a profile row as get_weekday_aggregated_occupancy returns it
Row(ti, tenths) ==
    [time_interval |-> ti, occupancy_count |-> tenths,
     hour |-> StartHour(ti), minute |-> StartMinute(ti)]

\* the chart drawn for a Monday profile with the two given counts (tenths)
ChartOf(a, b) ==
    Render([none |-> FALSE,
            data |-> [d \in {0} |-> <<Row("09:00-09:15", a),
                                      Row("12:30-12:45", b)>>]]).tabs[0].shapes

\* C8: maxVal is the maximum occupancy_count of the charted set, or 1 if the
\* set is empty or its maximum is 0; every bucket has height occupancy_count /
\* maxVal * 0.8 and is peak exactly when occupancy_count >= 0.8 * maxVal; so
\* whenever the maximum is > 0 the tallest bucket has height 0.8 and is peak
\* (counts [2, 8] give heights [0.2, 0.8]), and counts [0, 0] give heights 0.
C8_NormalizedToSetMaximum ==
    /\ RatEq(ChartOf(20, 80)[1].height, 2, 10)
    /\ RatEq(ChartOf(20, 80)[2].height, 8, 10)
    /\ ~IsPeak(ChartOf(20, 80)[1]) /\ IsPeak(ChartOf(20, 80)[2])
    /\ RatEq(ChartOf(0, 0)[1].height, 0, 1)
    /\ RatEq(ChartOf(0, 0)[2].height, 0, 1)
    /\ stats_view.shown = "tabs" =>
          LET maxVal == IF DrawnCounts = {} \/ SetMax(DrawnCounts) = 0 THEN 10
                        ELSE SetMax(DrawnCounts)
          IN  /\ NormalisedBy(maxVal)
              /\ \A p \in Drawn :
                    (SetMax(DrawnCounts) > 0 /\ BucketAt(p).occupancy = maxVal) =>
                        /\ RatEq(BucketAt(p).height, 8, 10)
                        /\ IsPeak(BucketAt(p))

\* what line 584 makes of it: the divisor is never below 1, so a chart whose
\* largest mean is under 1 is normalised against 1
FloorOfOne ==
    stats_view.shown = "tabs" =>
        LET maxVal == IF DrawnCounts = {} \/ SetMax(DrawnCounts) < 10 THEN 10
                      ELSE SetMax(DrawnCounts)
        IN  /\ all_max_occupancy = maxVal
            /\ NormalisedBy(maxVal)

\* the only bucket drawn holds the mean 0.5 of counts 0 and 1: the divisor
\* stays 1, the bucket has height 0.4 and is not peak
C8_Witness ==
    /\ stats_view.shown = "tabs"
    /\ DrawnCounts = {5}
    /\ all_max_occupancy = 10
    /\ \A p \in Drawn :
          /\ RatEq(BucketAt(p).height, 4, 10)
          /\ ~IsPeak(BucketAt(p))

\* C9: every bucket drawn has 0 <= height <= 0.8; within one chart height is
\* non-decreasing in occupancy_count; when the maximum over the drawn buckets
\* is 0 every height is 0.
C9_HeightBounds ==
    Rendered =>
        /\ \A p \in Drawn :
              /\ BucketAt(p).height.d > 0
              /\ 0 <= BucketAt(p).height.n
              /\ 10 * BucketAt(p).height.n <= 8 * BucketAt(p).height.d
        /\ \A p, q \in Drawn :
              (p[1] = q[1] /\ BucketAt(p).occupancy <= BucketAt(q).occupancy) =>
                  BucketAt(p).height.n * BucketAt(q).height.d
                      <= BucketAt(q).height.n * BucketAt(p).height.d
        /\ (DrawnCounts # {} /\ SetMax(DrawnCounts) = 0) =>
              \A p \in Drawn : BucketAt(p).height.n = 0

\* one chart holds two buckets of different heights, the taller at 0.8
C9_Witness ==
    /\ Rendered
    /\ \E p, q \in Drawn :
          /\ p[1] = q[1]
          /\ BucketAt(p).occupancy < BucketAt(q).occupancy
          /\ BucketAt(p).height.n * BucketAt(q).height.d
                 < BucketAt(q).height.n * BucketAt(p).height.d
          /\ RatEq(BucketAt(q).height, 8, 10)

\* a snapshot of total seats of which the first occupied are "occupied"
Snapshot(total, occupied) ==
    [s \in 1..total |-> IF s <= occupied THEN "occupied" ELSE "available"]

SummaryOf(total, occupied) ==
    Summarize(get_seat_status(Snapshot(total, occupied), FALSE))

\* what one run of display_live_seat_status must leave on the page
SeatSummaryIs(view, snapshot, failing) ==
    LET total == Cardinality(DOMAIN snapshot)
        occupied == Cardinality({s \in DOMAIN snapshot : snapshot[s] = "occupied"})
    IN  IF failing \/ total = 0
        THEN /\ view.shown = "warning"
             /\ view.total_seats = 0 /\ view.occupied_seats = 0
             /\ view.available_seats = 0 /\ view.color = ""
        ELSE /\ view.shown = "metrics"
             /\ view.total_seats = total
             /\ view.occupied_seats = occupied
             /\ view.available_seats = total - occupied
             /\ 0 <= view.occupied_seats /\ view.occupied_seats <= view.total_seats
             /\ view.occupied_seats + view.available_seats = view.total_seats
             /\ RatEq(view.occupancy_rate, occupied * 100, total)
             /\ view.color = "#51cf66" <=> occupied * 100 <= 30 * total
             /\ view.color = "#ffd43b" <=> /\ occupied * 100 > 30 * total
                                           /\ occupied * 100 <= 70 * total
             /\ view.color = "#ff6b6b" <=> occupied * 100 > 70 * total

\* C10: for every non-empty seat snapshot total is the number of seats,
\* occupied the number whose status is "occupied", available = total -
\* occupied, occupancy_rate = occupied / total * 100, and the band is low
\* (#51cf66) for rate <= 30, medium (#ffd43b) for 30 < rate <= 70, high
\* (#ff6b6b) above; 16 seats with 5 occupied give 31.25 and medium; an empty or
\* missing snapshot gives the warning and no counts.
C10_LiveStatusSummary ==
    [][ /\ SeatSummaryIs(SummaryOf(16, 5), Snapshot(16, 5), FALSE)
        /\ \E view \in {SummaryOf(16, 5)} :
              /\ RatEq(view.occupancy_rate, 3125, 100)
              /\ view.available_seats = 11
              /\ view.color = "#ffd43b"
        /\ SummaryOf(10, 3).color = "#51cf66"
        /\ SummaryOf(10, 7).color = "#ffd43b"
        /\ SummaryOf(10, 8).color = "#ff6b6b"
        /\ \A failing \in BOOLEAN :
              display_live_seat_status(failing) =>
                  SeatSummaryIs(seat_view', seat_status, failing) ]_vars

\* three seats, one occupied, one available, one without a status: 1 of 3,
\* rate 33.3, medium
C10_Witness ==
    /\ seat_status = <<"occupied", "available", "NA">>
    /\ seat_view.shown = "metrics"
    /\ seat_view.total_seats = 3
    /\ seat_view.occupied_seats = 1
    /\ seat_view.available_seats = 2
    /\ seat_view.color = "#ffd43b"

\* what a run of the slow cycle shows for the given store, clock and failure
StatsOutput(store, week, failing) ==
    LET got == get_weekday_aggregated_occupancy(store, week, failing)
    IN  <<got.weeks_to_fetch, got.weekday_data_by_week, got.all_latest_data,
          got.result, got.error,
          IF got.result.none THEN InitialMax ELSE AllMaxOccupancy(got.result.data),
          Render(got.result)>>

\* what a run of the fast cycle shows for the given snapshot and failure
SeatOutput(data, failing) ==
    LET got == get_seat_status(data, failing)
    IN  <<got.error, Summarize(got)>>

\* C11: the two cycles share no mutable data and keep no state between runs:
\* whatever ran before, a run of the slow cycle leaves the fast cycle's
\* output and both stores as they are and shows exactly what the store and
\* the clock of that run determine, and a run of the fast cycle leaves the
\* slow cycle's output as it is and shows exactly what the seat snapshot of
\* that run determines; nothing of the previous output survives.
C11_CyclesAreIndependent ==
    [][ /\ \A failing \in FailChoices :
              display_live_statistics(failing) =>
                  /\ seat_vars' = seat_vars
                  /\ occupancy_statistics' = occupancy_statistics
                  /\ stats_vars' = StatsOutput(occupancy_statistics, current_week,
                                               failing)
        /\ \A failing \in BOOLEAN :
              display_live_seat_status(failing) =>
                  /\ stats_vars' = stats_vars
                  /\ selector' = selector
                  /\ seat_status' = seat_status
                  /\ <<seat_error', seat_view'>> = SeatOutput(seat_status, failing) ]_vars

\* both cycles have run, the seat cycle last on a newer snapshot, and the
\* statistics on the page are older than the store: records were written
\* after the slow cycle's run
C11_Witness ==
    /\ stats_view.shown = "tabs"
    /\ seat_view.shown = "metrics"
    /\ Len(occupancy_statistics[1].detail_data) = 3
    /\ weekday_data # get_weekday_aggregated_occupancy(occupancy_statistics,
                                                       current_week, 0).result
    /\ all_max_occupancy = 40

UserSwitched ==
    /\ selector.isInitialized
    /\ selector.currentWeekday # selector.default_weekday
    /\ selector.active_tab = selector.currentWeekday

\* C12: the displayed weekday is driven by user input only: once the user
\* has switched to weekday d, a run of display_live_statistics leaves the
\* displayed tab and the title at d.
C12_SelectorSurvivesRefresh ==
    [][ \A failing \in FailChoices :
            (UserSwitched /\ display_live_statistics(failing)) =>
                /\ selector'.active_tab = selector.active_tab
                /\ selector'.weekday_title = selector.weekday_title
                /\ selector'.currentWeekday = selector.currentWeekday ]_vars

\* the page opened on Monday and the user has gone one back, to Friday
C12_Witness ==
    /\ stats_view.shown = "tabs"
    /\ UserSwitched
    /\ selector.default_weekday = 0
    /\ selector.active_tab = 4
    /\ selector.weekday_title = "Fri"

\* the selector is on the page
Mounted == selector.default_weekday # NA

\* n presses of Next from weekday d
RECURSIVE NextTimes(_, _)
NextTimes(d, n) == IF n = 0 THEN d ELSE NextTimes(NextWeekday(d), n - 1)

\* C14: the selector opens on today's weekday from Monday to Friday and on
\* Monday (0) at the weekend; currentWeekday stays in 0..4 whatever is clicked
\* or swiped; once initialized with exactly five tab buttons Next moves to
\* (d + 1) mod 5 and Prev to (d - 1 + 5) mod 5, so Next then Prev returns to
\* d and five Next steps return to the start; the title names currentWeekday.
C14_SelectorStateMachine ==
    /\ [](/\ \A d \in 0..4 :
                /\ PrevWeekday(NextWeekday(d)) = d
                /\ NextTimes(d, 5) = d
          /\ Mounted =>
                /\ selector.currentWeekday \in 0..4
                /\ selector.weekday_title = weekday_names[selector.currentWeekday + 1])
    /\ [][ /\ (selector'.default_weekday # NA
                  /\ selector'.default_weekday # selector.default_weekday) =>
                 /\ selector'.default_weekday =
                        IF current_weekday <= 4 THEN current_weekday ELSE 0
                 /\ selector'.currentWeekday = selector'.default_weekday
           /\ (selector.isInitialized /\ selector.tabButtons = 5 /\ ClickNext) =>
                 /\ selector'.currentWeekday = (selector.currentWeekday + 1) % 5
                 /\ selector'.active_tab = selector'.currentWeekday
           /\ (selector.isInitialized /\ selector.tabButtons = 5 /\ ClickPrev) =>
                 /\ selector'.currentWeekday = (selector.currentWeekday + 4) % 5
                 /\ selector'.active_tab = selector'.currentWeekday ]_vars

\* opened on a Sunday, hence on Monday, and moved on to Tuesday
C14_Witness ==
    /\ current_weekday = 6
    /\ selector.default_weekday = 0
    /\ selector.isInitialized /\ selector.tabButtons = 5
    /\ selector.currentWeekday = 1
    /\ selector.active_tab = 1
    /\ selector.weekday_title = "Tue"

\* C15: init's body runs at most once, so every button has at most one click
\* listener, whether the observer callback or the timeout gets there first;
\* when five tab buttons are there at an observed mutation or at the timeout
\* the selector is initialized, so tab buttons that are there before the
\* timeout lead to an initialized selector; from then on every Prev or Next
\* click changes the displayed weekday.
C15_InitRunsOnce ==
    /\ [](selector.listeners <= 1)
    /\ [][ /\ (selector.observer = "observing" /\ selector'.dom_tabs >= 5
                  /\ (TabsRendered \/ OtherMutation)) => selector'.isInitialized
           /\ (selector.dom_tabs >= 5 /\ TimeoutFires) => selector'.isInitialized
           /\ (selector.isInitialized /\ (ClickPrev \/ ClickNext)) =>
                 /\ selector'.active_tab # selector.active_tab
                 /\ selector'.active_tab = selector'.currentWeekday ]_vars
    /\ (Mounted /\ selector.dom_tabs >= 5 /\ selector.timer # "fired")
           ~> selector.isInitialized

\* the tab buttons came before the script observed anything: the timeout
\* initialized the selector, once
C15_Witness ==
    /\ selector.isInitialized
    /\ selector.timer = "fired"
    /\ selector.tabButtons = 5
    /\ selector.listeners = 1
    /\ selector.active_tab = selector.default_weekday

====
